---------------------------- MODULE Spec2Model ----------------------------
(***************************************************************************)
(* A model of the lyrics acquisition and metadata pagination pipeline:     *)
(*   - APIRequester (src/src/request_script.py): credential store,         *)
(*     request, request_json, request_all_songs_by_artist;                 *)
(*   - fetch_artist_songs (src/main_fetch_data.py);                        *)
(*   - get_links_from_page, get_song_title_and_lyrics                      *)
(*     (src/scrape_direct.py);                                             *)
(*   - LyricsScraper.scrape_lyrics (src/src/lyrics_scraper.py);            *)
(*   - the batch loops scrape_and_save_all_lyrics (src/scrape_direct.py),  *)
(*     LyricsScraper.scrape_multiple_urls and main                         *)
(*     (src/main_scrape_lyrics.py).                                        *)
(* Each entry point has its own specification (SpecRequest, SpecFetch,     *)
(* SpecLinks, SpecSong, SpecLyrics, and SpecBatch for the batch loops);    *)
(* the variables of the other entry points stay at their idle values.      *)
(***************************************************************************)
EXTENDS Integers, Sequences, FiniteSets, TLC

VARIABLES
    credentials,   \* APIRequester.credentials: name -> value
    call,          \* the arguments and the server's answer of the pending request call
    outcome,       \* what the call did: exception, request put on the wire, value returned
    fetcher,       \* which paginated fetcher runs
    api,           \* the server: its answer to page 1, 2, ... (empty pages after the last)
    page,          \* the pagination cursor
    all_songs,     \* the accumulator
    pc,            \* "fetching" | "done" | "raised"
    requests,      \* the page numbers put on the wire, in order
    error,         \* the exception that left the fetcher, or None
    returned,      \* the value returned to the caller
    links_page,    \* the discography page get_links_from_page is called on
    links_result,  \* what get_links_from_page did
    song_page,     \* the song page get_song_title_and_lyrics is called on
    song_result,   \* what get_song_title_and_lyrics did
    lyrics_page,   \* the lyrics page scrape_lyrics is called on
    lyrics_result, \* what scrape_lyrics did
    web,           \* the lyrics site of scrape_direct.py: song URL -> song page
    disk,          \* the files on disk: path -> contents
    trace,         \* the requests, sleeps and saves of a batch loop, in order
    album_i,       \* position in albums_dict.items() (1-based)
    song_i,        \* the i of enumerate(song_urls, 1)
    batch_pc,      \* where scrape_and_save_all_lyrics is
    song_rows,     \* songs, the rows of the CSV: title and url
    site,          \* the lyrics site of lyrics_scraper.py: URL -> lyrics page
    options,       \* who calls scrape_multiple_urls, with which delay and stop_on_error
    results,       \* the dict scrape_multiple_urls builds
    main_i,        \* the position of the loop that runs (1-based)
    main_pc        \* where scrape_multiple_urls and main are

reqVars   == <<call, outcome>>
fetchVars == <<fetcher, api, page, all_songs, pc, requests, error, returned>>
scrapeVars == <<links_page, links_result, song_page, song_result, lyrics_page, lyrics_result>>
saveVars  == <<web, disk, trace, album_i, song_i, batch_pc,
               song_rows, site, options, results, main_i, main_pc>>
vars      == <<credentials, reqVars, fetchVars, scrapeVars, saveVars>>

(***************************************************************************)
(* Python values                                                           *)
(***************************************************************************)
\* None, where a string is optional
None == "None"

\* bool(s) of an optional string
Truthy(s) == s # None /\ s # ""

EmptyDict == [k \in {} |-> ""]

\* d[k] = v on a dict
DictSet(d, k, v) == [x \in DOMAIN d \cup {k} |-> IF x = k THEN v ELSE d[x]]

\* str.lower() on the credential names of the model
lower(s) ==
    CASE s = "API_KEY"   -> "api_key"
      [] s = "Client_ID" -> "client_id"
      [] OTHER           -> s

(***************************************************************************)
(* The server's answer to one GET                                          *)
(***************************************************************************)
\* a body that is not JSON
NotJson == [json |-> FALSE, payload |-> "absent", songs |-> <<>>, next_page |-> FALSE]

\* a JSON envelope: payload says whether the top-level "response" member is
\* absent, null or an object; songs and next_page are the object's members
\* (next_page: TRUE for a page number, FALSE for null or absent)
Envelope(payload, songs, next_page) ==
    [json |-> TRUE, payload |-> payload, songs |-> songs, next_page |-> next_page]

\* the transport failed: no response at all
TransportFailure == [transport |-> "ConnectionError", status |-> 0, body |-> NotJson]

HttpResponse(status, body) == [transport |-> "ok", status |-> status, body |-> body]

(***************************************************************************)
(* Credential store                                                        *)
(***************************************************************************)
\* str.strip() on the file contents of the model
strip(raw) ==
    CASE raw = " s3cr3t\n" -> "s3cr3t"
      [] raw = "\n"        -> ""
      [] OTHER             -> raw

\* _load_credentials: one entry per *.id file, keyed by the stem, the value
\* the stripped contents
load_credentials(files) == [stem \in DOMAIN files |-> strip(files[stem])]

get_credential(creds, name) == IF name \in DOMAIN creds THEN creds[name] ELSE None

(***************************************************************************)
(* APIRequester.request                                                    *)
(***************************************************************************)
\* the outcome of one call: exc is the exception raised (None: none), sent
\* says whether requests.get was called, wire_params and wire_headers are
\* what it was called with, response is what it returned
Outcome(exc, sent, wire_params, wire_headers, response) ==
    [exc |-> exc, sent |-> sent, wire_params |-> wire_params,
     wire_headers |-> wire_headers, response |-> response]

BearerNames == {"genius_key", "api_key", "token"}
ClientNames == {"client", "client_id"}

\* inject_header with the client names sent as Bearer tokens too
inject_header_careless(headers, credential_name, credential) ==
    IF lower(credential_name) \in BearerNames \cup ClientNames
    THEN DictSet(headers, "Authorization", "Bearer " \o credential)
    ELSE DictSet(headers, "Authorization", credential)

\* lines 112-118: the header that carries the credential
inject_header(headers, credential_name, credential) ==
    IF lower(credential_name) \in BearerNames
    THEN DictSet(headers, "Authorization", "Bearer " \o credential)
    ELSE IF lower(credential_name) \in ClientNames
         THEN DictSet(headers, "X-Client-ID", credential)
         ELSE DictSet(headers, "Authorization", credential)

\* request without the check of line 104
request_unchecked(creds, credential_name, params, headers, use_query_param, server) ==
    LET credential == get_credential(creds, credential_name)
        request_params ==
            IF Truthy(credential_name) /\ use_query_param
            THEN DictSet(params, "access_token", credential) ELSE params
        request_headers ==
            IF Truthy(credential_name) /\ ~use_query_param
            THEN inject_header(headers, credential_name, credential) ELSE headers
    IN  IF server.transport # "ok"
        THEN Outcome(server.transport, TRUE, request_params, request_headers, server)
        ELSE Outcome(None, TRUE, request_params, request_headers, server)

request(creds, credential_name, params, headers, use_query_param, server) ==
    LET credential == get_credential(creds, credential_name)
        request_params ==
            IF Truthy(credential_name) /\ use_query_param
            THEN DictSet(params, "access_token", credential) ELSE params
        request_headers ==
            IF Truthy(credential_name) /\ ~use_query_param
            THEN inject_header(headers, credential_name, credential) ELSE headers
    IN  IF Truthy(credential_name) /\ ~Truthy(credential)
        THEN Outcome("ValueError", FALSE, EmptyDict, EmptyDict, TransportFailure)
        ELSE IF server.transport # "ok"
             THEN Outcome(server.transport, TRUE, request_params, request_headers, server)
             ELSE Outcome(None, TRUE, request_params, request_headers, server)

(***************************************************************************)
(* APIRequester.request_json                                               *)
(***************************************************************************)
\* requests' Response.raise_for_status: HTTPError for 400 <= status < 600
raise_for_status(status) == 400 <= status /\ status < 600

\* the outcome of request_json: as request's, with value the parsed body when
\* parsed is TRUE
request_json(creds, credential_name, params, headers, use_query_param, server) ==
    LET r == request(creds, credential_name, params, headers, use_query_param, server)
        exc == IF r.exc # None THEN r.exc
               ELSE IF raise_for_status(r.response.status) THEN "HTTPError"
               ELSE IF ~r.response.body.json THEN "JSONDecodeError"
               ELSE None
    IN  [exc |-> exc, sent |-> r.sent, wire_params |-> r.wire_params,
         wire_headers |-> r.wire_headers, response |-> r.response,
         status |-> IF exc = "HTTPError" THEN r.response.status ELSE 0,
         parsed |-> exc = None,
         value |-> IF exc = None THEN r.response.body ELSE NotJson]

(***************************************************************************)
(* SpecRequest: one call of request or of request_json                     *)
(***************************************************************************)
\* the *.id files a workspace may hold (by stem) and what they may contain
Stems == {"genius_key", "API_KEY", "client", "custom"}
RawContents == {" s3cr3t\n", "\n"}
Workspaces == UNION {[S -> RawContents] : S \in SUBSET Stems}

\* the arguments a caller may pass, and the answers the server may give
CredentialNames == {None, "", "genius_key", "API_KEY", "client", "custom"}
CallerParams == {EmptyDict, [q |-> "caparezza"]}
CallerHeaders == {EmptyDict, [Accept |-> "application/json"]}
Statuses == {200, 204, 304, 404, 500}
Bodies == {NotJson, Envelope("dict", <<"A">>, FALSE)}
Servers == {TransportFailure} \cup {HttpResponse(s, b) : s \in Statuses, b \in Bodies}

Calls == [credential_name : CredentialNames, params : CallerParams,
          headers : CallerHeaders, use_query_param : BOOLEAN, server : Servers]

NoCall == [credential_name |-> None, params |-> EmptyDict, headers |-> EmptyDict,
           use_query_param |-> TRUE, server |-> TransportFailure]

\* no call made yet
Pending == [fn |-> "pending", exc |-> None, sent |-> FALSE, wire_params |-> EmptyDict,
            wire_headers |-> EmptyDict, response |-> TransportFailure,
            status |-> 0, parsed |-> FALSE, value |-> NotJson]

ReqIdle == call = NoCall /\ outcome = Pending

FetchIdle ==
    /\ fetcher = "none" /\ api = <<>> /\ page = 1 /\ all_songs = <<>>
    /\ pc = "idle" /\ requests = <<>> /\ error = None /\ returned = <<>>

\* no page handed to a scraper
NoPage == [fetch |-> "none"]
NoResult == [state |-> "idle"]

ScrapeIdle ==
    /\ links_page = NoPage /\ links_result = NoResult
    /\ song_page = NoPage /\ song_result = NoResult
    /\ lyrics_page = NoPage /\ lyrics_result = NoResult

\* no batch loop runs
BatchIdle ==
    /\ web = EmptyDict /\ album_i = 0 /\ song_i = 0 /\ batch_pc = "idle"

MainIdle ==
    /\ song_rows = <<>> /\ site = EmptyDict /\ options = NoResult /\ results = <<>>
    /\ main_i = 0 /\ main_pc = "idle"

SaveIdle == BatchIdle /\ MainIdle /\ disk = EmptyDict /\ trace = <<>>

InitRequest ==
    /\ \E files \in Workspaces : credentials = load_credentials(files)
    /\ call \in Calls
    /\ outcome = Pending
    /\ FetchIdle
    /\ ScrapeIdle
    /\ SaveIdle

\* requester.request(url, credential_name, params, headers, timeout, use_query_param)
DoRequest ==
    /\ outcome.fn = "pending"
    /\ LET r == request(credentials, call.credential_name, call.params, call.headers,
                        call.use_query_param, call.server)
       IN  outcome' = [fn |-> "request", exc |-> r.exc, sent |-> r.sent,
                       wire_params |-> r.wire_params, wire_headers |-> r.wire_headers,
                       response |-> r.response, status |-> 0, parsed |-> FALSE,
                       value |-> NotJson]
    /\ UNCHANGED <<credentials, call, fetchVars, scrapeVars, saveVars>>

\* requester.request_json(url, credential_name, params, headers, timeout, use_query_param)
DoRequestJson ==
    /\ outcome.fn = "pending"
    /\ LET r == request_json(credentials, call.credential_name, call.params,
                             call.headers, call.use_query_param, call.server)
       IN  outcome' = [fn |-> "request_json", exc |-> r.exc, sent |-> r.sent,
                       wire_params |-> r.wire_params, wire_headers |-> r.wire_headers,
                       response |-> r.response, status |-> r.status,
                       parsed |-> r.parsed, value |-> r.value]
    /\ UNCHANGED <<credentials, call, fetchVars, scrapeVars, saveVars>>

NextRequest == DoRequest \/ DoRequestJson

SpecRequest == InitRequest /\ [][NextRequest]_vars

\* a call was made
Called == outcome.fn # "pending"

(***************************************************************************)
(* C4                                                                      *)
(***************************************************************************)
\* C4 as stated: a call with a credential_name (anything but None) that the
\* store does not hold fails with ValueError and puts nothing on the wire; a
\* request goes on the wire only if the named credential was resolved.
C4_AsStated ==
    Called /\ call.credential_name # None
           /\ call.credential_name \notin DOMAIN credentials
        => outcome.exc = "ValueError" /\ ~outcome.sent

\* C4 amended: a call with a non-empty credential_name that the store does
\* not hold, or holds with an empty value, fails with ValueError and puts
\* nothing on the wire; whenever a request goes on the wire for a non-empty
\* credential_name, the store holds a non-empty value for it.  The empty
\* string as credential_name is treated as no credential_name.
C4_Unresolved ==
    /\ Called /\ Truthy(call.credential_name)
              /\ (call.credential_name \notin DOMAIN credentials
                  \/ credentials[call.credential_name] = "")
         => outcome.exc = "ValueError" /\ ~outcome.sent
    /\ Called /\ Truthy(call.credential_name) /\ outcome.sent
         => /\ call.credential_name \in DOMAIN credentials
            /\ credentials[call.credential_name] # ""
    /\ Called /\ ~Truthy(call.credential_name)
         => outcome.sent /\ outcome.exc # "ValueError"

\* request_json was called with the name of no file: it raised, nothing sent
C4_Witness ==
    /\ outcome.fn = "request_json"
    /\ call.credential_name = "custom"
    /\ "custom" \notin DOMAIN credentials
    /\ call.server.transport = "ok"
    /\ outcome.exc = "ValueError" /\ ~outcome.sent


(***************************************************************************)
(* C5                                                                      *)
(***************************************************************************)
\* after is before with exactly the entry k: v set
AddedExactly(before, after, k, v) ==
    /\ DOMAIN after = DOMAIN before \cup {k}
    /\ after[k] = v
    /\ \A x \in DOMAIN before \ {k} : after[x] = before[x]

\* the credential went into the query, under access_token, and nowhere else
InQueryOnly(c) ==
    /\ AddedExactly(call.params, outcome.wire_params, "access_token", c)
    /\ outcome.wire_headers = call.headers

\* the credential went into the header h as v, and nowhere else
InHeaderOnly(h, v) ==
    /\ AddedExactly(call.headers, outcome.wire_headers, h, v)
    /\ outcome.wire_params = call.params

\* C5 as stated: for every credential name the store holds, the credential
\* goes to exactly one place: the query key access_token, or the header the
\* table gives for the name as written (genius_key, api_key, token: Bearer;
\* client, client_id: X-Client-ID; any other name: the raw value).
C5_AsStated ==
    Called /\ call.credential_name \in DOMAIN credentials
        => LET n == call.credential_name
               c == credentials[n]
           IN  /\ outcome.sent
               /\ IF call.use_query_param THEN InQueryOnly(c)
                  ELSE IF n \in {"genius_key", "api_key", "token"}
                       THEN InHeaderOnly("Authorization", "Bearer " \o c)
                  ELSE IF n \in {"client", "client_id"}
                       THEN InHeaderOnly("X-Client-ID", c)
                  ELSE InHeaderOnly("Authorization", c)

\* C5 amended: for every credential name the store holds with a non-empty
\* value, the credential goes to exactly one place: the query key
\* access_token, or the header the table gives for the name in lower case;
\* a name the store holds with an empty value raises ValueError instead.
C5_Placement ==
    /\ Called /\ call.credential_name \in DOMAIN credentials
              /\ credentials[call.credential_name] # ""
         => LET n == call.credential_name
                c == credentials[n]
            IN  /\ outcome.sent
                /\ IF call.use_query_param THEN InQueryOnly(c)
                   ELSE IF n \in {"genius_key", "api_key", "token",
                                  "GENIUS_KEY", "API_KEY", "TOKEN"}
                        THEN InHeaderOnly("Authorization", "Bearer " \o c)
                   ELSE IF n \in {"client", "client_id", "Client_ID"}
                        THEN InHeaderOnly("X-Client-ID", c)
                   ELSE InHeaderOnly("Authorization", c)
    /\ Called /\ call.credential_name \in DOMAIN credentials
              /\ credentials[call.credential_name] = ""
         => outcome.exc = "ValueError" /\ ~outcome.sent

\* header injection of the client credential, next to a caller's own header
C5_Witness ==
    /\ Called /\ ~call.use_query_param
    /\ call.credential_name = "client"
    /\ "client" \in DOMAIN credentials /\ credentials["client"] = "s3cr3t"
    /\ call.headers = [Accept |-> "application/json"]
    /\ outcome.sent
    /\ DOMAIN outcome.wire_headers = {"Accept", "X-Client-ID"}
    /\ outcome.wire_headers["X-Client-ID"] = "s3cr3t"
    /\ outcome.wire_params = call.params

(***************************************************************************)
(* C6                                                                      *)
(***************************************************************************)
\* C6 as stated: request_json returns a parsed body only for a 2xx response;
\* for a response with any other status it raises an HTTP status error that
\* carries the status, and the body is not parsed.
C6_AsStated ==
    outcome.fn = "request_json" /\ outcome.sent /\ outcome.response.transport = "ok"
        => LET status == outcome.response.status
           IN  /\ outcome.parsed => 200 <= status /\ status <= 299
               /\ ~(200 <= status /\ status <= 299)
                    => /\ outcome.exc = "HTTPError"
                       /\ outcome.status = status
                       /\ ~outcome.parsed

(***************************************************************************)
(* The paginated fetchers                                                  *)
(***************************************************************************)
\* what one pass of the loop leaves: the loop goes on ("fetching"), returns
\* ("done") or is left by an exception ("raised")
Pass(state, nextPage, songs, exc) ==
    [pc |-> state, page |-> nextPage, all_songs |-> songs, error |-> exc]

\* fetch_artist_songs_iter with the next_page test made before the extend
fetch_artist_songs_iter_next_first(r, pg, acc) ==
    IF r.exc # None THEN Pass("raised", pg, acc, r.exc)
    ELSE IF r.value.payload # "dict" THEN Pass("done", pg, acc, None)
    ELSE IF r.value.songs = <<>> THEN Pass("done", pg, acc, None)
    ELSE IF ~r.value.next_page THEN Pass("done", pg, acc, None)
    ELSE Pass("fetching", pg + 1, acc \o r.value.songs, None)

\* fetch_artist_songs_iter with an exception answered by the songs so far
fetch_artist_songs_iter_partial(r, pg, acc) ==
    IF r.exc # None THEN Pass("done", pg, acc, None)
    ELSE IF r.value.payload # "dict" THEN Pass("done", pg, acc, None)
    ELSE IF r.value.songs = <<>> THEN Pass("done", pg, acc, None)
    ELSE IF ~r.value.next_page THEN Pass("done", pg, acc \o r.value.songs, None)
    ELSE Pass("fetching", pg + 1, acc \o r.value.songs, None)

\* fetch_artist_songs, one pass of its loop on request_json's outcome r for
\* page pg, with acc accumulated so far (main_fetch_data.py 27-47)
fetch_artist_songs_iter(r, pg, acc) ==
    IF r.exc # None THEN Pass("raised", pg, acc, r.exc)
    ELSE IF r.value.payload # "dict" THEN Pass("done", pg, acc, None)
    ELSE IF r.value.songs = <<>> THEN Pass("done", pg, acc, None)
    ELSE IF ~r.value.next_page THEN Pass("done", pg, acc \o r.value.songs, None)
    ELSE Pass("fetching", pg + 1, acc \o r.value.songs, None)

\* request_all_songs_by_artist, one pass of its loop (request_script.py
\* 241-252): response.get('response', {}) is None for a null member, and
\* None.get raises AttributeError
request_all_songs_iter(r, pg, acc) ==
    IF r.exc # None THEN Pass("raised", pg, acc, r.exc)
    ELSE IF r.value.payload = "null" THEN Pass("raised", pg, acc, "AttributeError")
    ELSE LET songs == IF r.value.payload = "dict" THEN r.value.songs ELSE <<>>
         IN  IF songs = <<>> THEN Pass("done", pg, acc, None)
             ELSE Pass("fetching", pg + 1, acc \o songs, None)

(***************************************************************************)
(* SpecFetch: one run of a paginated fetcher against a server               *)
(***************************************************************************)
MaxPages == 3

SongLists == {<<>>, <<"A", "B">>, <<"C">>}

\* the answers the server may give to the request for one page
PageAnswers ==
    {TransportFailure, HttpResponse(500, NotJson), HttpResponse(200, NotJson),
     HttpResponse(304, Envelope("dict", <<"C">>, TRUE)),
     HttpResponse(200, Envelope("absent", <<>>, FALSE)),
     HttpResponse(200, Envelope("null", <<>>, FALSE))}
    \cup {HttpResponse(200, Envelope("dict", s, n)) : s \in SongLists, n \in BOOLEAN}

\* past its last page the server answers with an empty page
EmptyAnswer == HttpResponse(200, Envelope("dict", <<>>, FALSE))

ApiPage(n) == IF n \in DOMAIN api THEN api[n] ELSE EmptyAnswer

\* the songs endpoint's query (request_script.py 216-219, main_fetch_data.py 30)
SongsParams(pg) == [per_page |-> 50, page |-> pg]

\* request_json against the songs endpoint for page pg
FetchPage(pg) ==
    request_json(credentials, "genius_key", SongsParams(pg), EmptyDict, TRUE, ApiPage(pg))

InitFetch ==
    /\ credentials \in {[genius_key |-> "s3cr3t"], EmptyDict}
    /\ ReqIdle
    /\ fetcher \in {"fetch_artist_songs", "request_all_songs_by_artist"}
    /\ api \in UNION {[1..n -> PageAnswers] : n \in 0..MaxPages}
    /\ page = 1
    /\ all_songs = <<>>
    /\ pc = "fetching"
    /\ requests = <<>>
    /\ error = None
    /\ returned = <<>>
    /\ ScrapeIdle
    /\ SaveIdle

\* the effect of one pass p, made on request_json's outcome r
Advance(r, p) ==
    /\ requests' = IF r.sent THEN Append(requests, page) ELSE requests
    /\ page' = p.page
    /\ all_songs' = p.all_songs
    /\ pc' = p.pc
    /\ error' = p.error
    /\ returned' = IF p.pc = "done" THEN p.all_songs ELSE <<>>
    /\ UNCHANGED <<credentials, reqVars, fetcher, api, scrapeVars, saveVars>>

\* one pass of fetch_artist_songs' while loop
FetchArtistSongs ==
    /\ fetcher = "fetch_artist_songs"
    /\ pc = "fetching"
    /\ LET r == FetchPage(page)
       IN  Advance(r, fetch_artist_songs_iter(r, page, all_songs))

\* one pass of request_all_songs_by_artist's while loop
RequestAllSongsByArtist ==
    /\ fetcher = "request_all_songs_by_artist"
    /\ pc = "fetching"
    /\ LET r == FetchPage(page)
       IN  Advance(r, request_all_songs_iter(r, page, all_songs))

NextFetch == FetchArtistSongs \/ RequestAllSongsByArtist

SpecFetch == InitFetch /\ [][NextFetch]_vars

(***************************************************************************)
(* C1, C2, C3                                                              *)
(***************************************************************************)
HasKey == "genius_key" \in DOMAIN credentials

\* page n is served: a 2xx response with a JSON body
PageOk(n) ==
    LET a == ApiPage(n)
    IN  a.transport = "ok" /\ 200 <= a.status /\ a.status <= 299 /\ a.body.json

\* the songs collection of page n (empty when the envelope has no object)
SongsOn(n) ==
    LET b == ApiPage(n).body IN IF b.payload = "dict" THEN b.songs ELSE <<>>

\* page n carries the next-page indicator
NextOn(n) == ApiPage(n).body.payload = "dict" /\ ApiPage(n).body.next_page

\* the first page whose songs collection is empty
FirstEmpty ==
    CHOOSE k \in 1..(Len(api) + 1) :
        SongsOn(k) = <<>> /\ \A j \in 1..(k - 1) : SongsOn(j) # <<>>

RECURSIVE ConcatPages(_)
\* the songs of pages 1..m, in page order then intra-page order
ConcatPages(m) == IF m = 0 THEN <<>> ELSE ConcatPages(m - 1) \o SongsOn(m)

UpTo(k) == [i \in 1..k |-> i]

Finished == pc \in {"done", "raised"}

\* the pages up to the first empty one are all served
ServedToFirstEmpty == HasKey /\ \A n \in 1..FirstEmpty : PageOk(n)

FirstNullNext ==
    LET S == {j \in 1..(FirstEmpty - 1) : ~NextOn(j)}
    IN  IF S = {} THEN 0 ELSE CHOOSE j \in S : \A i \in S : j <= i

IndicatorUntilLast ==
    /\ HasKey /\ Len(api) >= 1
    /\ \A n \in 1..Len(api) :
          PageOk(n) /\ SongsOn(n) # <<>> /\ (NextOn(n) <=> n < Len(api))

\* C2 as stated: when every page but the last carries the next-page
\* indicator and the last page does not (all of them pages with songs, like
\* [{songs:[A,B], next_page:2}, {songs:[C], next_page:null}]), either fetcher
\* returns the songs of all the pages, the last included, and requests
\* exactly these pages.
C2_AsStated ==
    IndicatorUntilLast
        => /\ \A i \in DOMAIN requests : requests[i] <= Len(api)
           /\ Finished => /\ pc = "done"
                          /\ returned = ConcatPages(Len(api))
                          /\ requests = UpTo(Len(api))

\* the request for page n raises
PageRaises(n) == FetchPage(n).exc # None

\* C3: pages are requested once each, in order; the request that raises is
\* the last one made, the fetcher is left by that exception at once, and
\* nothing is returned; with no credential the first request is never made.
C3_Propagates ==
    /\ \A i \in DOMAIN requests : requests[i] = i
    /\ \A i \in DOMAIN requests :
          PageRaises(requests[i])
              => /\ i = Len(requests)
                 /\ pc = "raised"
                 /\ error = FetchPage(requests[i]).exc
                 /\ returned = <<>>
    /\ ~HasKey /\ pc # "fetching"
          => pc = "raised" /\ error = "ValueError" /\ requests = <<>>

\* the second page answered 500 after the first gave songs: the fetcher was
\* left by HTTPError, the songs of page 1 went nowhere
C3_Witness ==
    /\ pc = "raised" /\ error = "HTTPError"
    /\ requests = <<1, 2>>
    /\ all_songs = <<"A", "B">>
    /\ returned = <<>>
    /\ Len(api) = 3

(***************************************************************************)
(* get_links_from_page (scrape_direct.py)                                  *)
(***************************************************************************)
\* A string with "/" in it is held as its parts between the slashes:
\* "/lyrics/one.html" is <<"", "lyrics", "one.html">>.
PageUrl == <<"https:", "", "www.azlyrics.com", "c", "caparezza.html">>

\* href.startswith("/")
startswith_slash(href) == Len(href) >= 2 /\ href[1] = ""

\* lines 64-66: base_url = "/".join(page_url.split("/")[:3]); base_url + href
absolute(page_url, href) ==
    IF startswith_slash(href) THEN SubSeq(page_url, 1, 3) \o Tail(href) ELSE href

\* a dict that keeps insertion order, as a sequence of entries: d[k] = v
\* replaces the value of an entry in place, or appends a new entry
HasAlbum(d, k) == \E i \in DOMAIN d : d[i].album = k

dict_set(d, k, v) ==
    IF HasAlbum(d, k)
    THEN [i \in DOMAIN d |-> IF d[i].album = k THEN [album |-> k, links |-> v] ELSE d[i]]
    ELSE Append(d, [album |-> k, links |-> v])

\* the children of the listAlbum container
TextNode == [kind |-> "str", text |-> "\n", a |-> FALSE, href |-> <<>>]
AlbumHeader(t) == [kind |-> "album", text |-> t, a |-> FALSE, href |-> <<>>]
SongItem(h) == [kind |-> "item", text |-> "", a |-> TRUE, href |-> h]
BareItem == [kind |-> "item", text |-> "", a |-> FALSE, href |-> <<>>]
OtherElement == [kind |-> "other", text |-> "", a |-> FALSE, href |-> <<>>]

RECURSIVE walk_children(_, _, _, _, _)
\* lines 37-71: the loop over the children, then the flush of the last album
walk_children(cs, page_url, grouped_links, current_album, current_links) ==
    IF cs = <<>>
    THEN IF current_album # None
         THEN dict_set(grouped_links, current_album, current_links)
         ELSE grouped_links
    ELSE LET child == Head(cs)
         IN  IF child.kind = "album"
             THEN walk_children(Tail(cs), page_url,
                      IF current_album # None
                      THEN dict_set(grouped_links, current_album, current_links)
                      ELSE grouped_links,
                      child.text, <<>>)
             ELSE IF child.kind = "item" /\ child.a /\ current_album # None
             THEN walk_children(Tail(cs), page_url, grouped_links, current_album,
                      Append(current_links, absolute(page_url, child.href)))
             ELSE walk_children(Tail(cs), page_url, grouped_links, current_album,
                      current_links)

\* get_links_from_page: raise_for_status is not caught; no container gives {}
get_links_from_page(page_url, pg) ==
    IF pg.fetch # "ok" THEN [state |-> "raised", grouped_links |-> <<>>]
    ELSE IF ~pg.list_album THEN [state |-> "returned", grouped_links |-> <<>>]
    ELSE [state |-> "returned",
          grouped_links |-> walk_children(pg.children, page_url, <<>>, None, <<>>)]

(***************************************************************************)
(* SpecLinks: one call of get_links_from_page                              *)
(***************************************************************************)
MaxChildren == 4

Hrefs == {<<"", "lyrics", "one.html">>,
          <<"https:", "", "www.azlyrics.com", "lyrics", "two.html">>}

Children ==
    {TextNode, BareItem, OtherElement}
    \cup {AlbumHeader(t) : t \in {"album: X", "album: Y"}}
    \cup {SongItem(h) : h \in Hrefs}

LinksPages ==
    {[fetch |-> "HTTPError", list_album |-> FALSE, children |-> <<>>],
     [fetch |-> "ok", list_album |-> FALSE, children |-> <<>>]}
    \cup {[fetch |-> "ok", list_album |-> TRUE, children |-> cs] :
            cs \in UNION {[1..n -> Children] : n \in 0..MaxChildren}}

InitLinks ==
    /\ credentials = EmptyDict
    /\ ReqIdle
    /\ FetchIdle
    /\ links_page \in LinksPages
    /\ links_result = [state |-> "pending", grouped_links |-> <<>>]
    /\ song_page = NoPage /\ song_result = NoResult
    /\ lyrics_page = NoPage /\ lyrics_result = NoResult
    /\ SaveIdle

GetLinksFromPage ==
    /\ links_result.state = "pending"
    /\ links_result' = get_links_from_page(PageUrl, links_page)
    /\ UNCHANGED <<credentials, reqVars, fetchVars, links_page,
                   song_page, song_result, lyrics_page, lyrics_result, saveVars>>

NextLinks == GetLinksFromPage

SpecLinks == InitLinks /\ [][NextLinks]_vars

(***************************************************************************)
(* C7                                                                      *)
(***************************************************************************)
RECURSIVE Ascending(_)
\* a set of numbers as an ascending sequence
Ascending(S) ==
    IF S = {} THEN <<>>
    ELSE LET m == CHOOSE x \in S : \A y \in S : x <= y
         IN  <<m>> \o Ascending(S \ {m})

\* the positions of the album headers, in document order
HeaderPositions ==
    Ascending({i \in DOMAIN links_page.children : links_page.children[i].kind = "album"})

\* the links of the song items strictly between positions lo and hi
LinksBetween(lo, hi) ==
    LET at == Ascending({i \in (lo + 1)..(hi - 1) :
                           links_page.children[i].kind = "item" /\ links_page.children[i].a})
        h(i) == links_page.children[at[i]].href
    IN  [i \in DOMAIN at |->
            IF h(i)[1] = "" THEN <<"https:", "", "www.azlyrics.com">> \o Tail(h(i))
            ELSE h(i)]

\* one group per album header, in document order, each with the links of the
\* song items up to the next header (or the end)
GroupPerHeader ==
    LET hs == HeaderPositions
    IN  [n \in DOMAIN hs |->
            [album |-> links_page.children[hs[n]].text,
             links |-> LinksBetween(hs[n], IF n < Len(hs) THEN hs[n + 1]
                                           ELSE Len(links_page.children) + 1)]]

LinksReturned ==
    links_result.state = "returned" /\ links_page.fetch = "ok" /\ links_page.list_album

\* C7 as stated: get_links_from_page returns one group per album-header
\* child, in document order, each holding exactly the links of the song items
\* between that header and the next; no link after a header is lost or moved.
C7_AsStated == LinksReturned => links_result.grouped_links = GroupPerHeader

\* the album headers of the page all have different texts
DistinctAlbums ==
    \A i, j \in DOMAIN HeaderPositions :
        links_page.children[HeaderPositions[i]].text
            = links_page.children[HeaderPositions[j]].text => i = j

\* the grouping is the one of C7 whenever no two album headers share a text
C7_DistinctAlbums == LinksReturned /\ DistinctAlbums => links_result.grouped_links = GroupPerHeader

(***************************************************************************)
(* get_song_title_and_lyrics (scrape_direct.py)                            *)
(***************************************************************************)
\* The elements of the main content div, in document order.  Two elements
\* are equal (BeautifulSoup's Tag ==) when their name, attributes and
\* contents are: the record equality of the model.
Ringtone == [kind |-> "ringtone", text |-> ""]
Bold(t) == [kind |-> "b", text |-> t]
\* a div without a class
PlainDiv(t) == [kind |-> "div", text |-> t]
Noprint(t) == [kind |-> "noprint", text |-> t]
\* a div of another class
ClassedDiv == [kind |-> "classed", text |-> ""]

\* the position of the first element of a kind (0: none); find("div", class_=...)
FirstOf(els, kind) ==
    LET S == {i \in DOMAIN els : els[i].kind = kind}
    IN  IF S = {} THEN 0 ELSE CHOOSE i \in S : \A j \in S : i <= j

RECURSIVE first_bold_after(_, _)
\* lines 124-131: the text of the first <b> among the siblings after position i
first_bold_after(els, i) ==
    IF i + 1 > Len(els) THEN ""
    ELSE IF els[i + 1].kind = "b" THEN els[i + 1].text
    ELSE first_bold_after(els, i + 1)

RECURSIVE lyrics_after(_, _, _)
\* lines 141-152: walk the siblings after position i up to one equal to the
\* noprint div; the first div without a class gives the lyrics
lyrics_after(els, i, noprint_div) ==
    IF i + 1 > Len(els) THEN None
    ELSE IF els[i + 1] = noprint_div THEN None
    ELSE IF els[i + 1].kind = "div" THEN els[i + 1].text
    ELSE lyrics_after(els, i + 1, noprint_div)

SongResult(state, title, lyrics) == [state |-> state, title |-> title, lyrics |-> lyrics]

\* get_song_title_and_lyrics without the try/except of lines 90-95
get_song_title_and_lyrics_raising(pg) ==
    IF pg.fetch # "ok" THEN SongResult("raised", None, None)
    ELSE IF ~pg.main_content THEN SongResult("returned", "", None)
    ELSE LET ringtone_div == FirstOf(pg.els, "ringtone")
             noprint_div == FirstOf(pg.els, "noprint")
         IN  IF ringtone_div = 0 THEN SongResult("returned", "", None)
             ELSE LET song_title == first_bold_after(pg.els, ringtone_div)
                      lyrics_text ==
                          IF noprint_div # 0
                          THEN lyrics_after(pg.els, ringtone_div, pg.els[noprint_div])
                          ELSE None
                  IN  IF ~Truthy(lyrics_text)
                      THEN SongResult("returned", song_title, None)
                      ELSE SongResult("returned", song_title, lyrics_text)

\* get_song_title_and_lyrics: a failed fetch is caught and gives (None, None)
get_song_title_and_lyrics(pg) ==
    IF pg.fetch # "ok" THEN SongResult("returned", None, None)
    ELSE IF ~pg.main_content THEN SongResult("returned", "", None)
    ELSE LET ringtone_div == FirstOf(pg.els, "ringtone")
             noprint_div == FirstOf(pg.els, "noprint")
         IN  IF ringtone_div = 0 THEN SongResult("returned", "", None)
             ELSE LET song_title == first_bold_after(pg.els, ringtone_div)
                      lyrics_text ==
                          IF noprint_div # 0
                          THEN lyrics_after(pg.els, ringtone_div, pg.els[noprint_div])
                          ELSE None
                  IN  IF ~Truthy(lyrics_text)
                      THEN SongResult("returned", song_title, None)
                      ELSE SongResult("returned", song_title, lyrics_text)

(***************************************************************************)
(* SpecSong: one call of get_song_title_and_lyrics                         *)
(***************************************************************************)
MaxElements == 4

Elements ==
    {Ringtone, ClassedDiv, Bold("Title"), PlainDiv("la la"), PlainDiv(""),
     Noprint("share"), Noprint("submit")}

SongPages ==
    {[fetch |-> f, main_content |-> FALSE, els |-> <<>>] :
        f \in {"ConnectionError", "HTTPError", "ok"}}
    \cup {[fetch |-> "ok", main_content |-> TRUE, els |-> es] :
            es \in UNION {[1..n -> Elements] : n \in 0..MaxElements}}

InitSong ==
    /\ credentials = EmptyDict
    /\ ReqIdle
    /\ FetchIdle
    /\ links_page = NoPage /\ links_result = NoResult
    /\ song_page \in SongPages
    /\ song_result = SongResult("pending", None, None)
    /\ lyrics_page = NoPage /\ lyrics_result = NoResult
    /\ SaveIdle

GetSongTitleAndLyrics ==
    /\ song_result.state = "pending"
    /\ song_result' = get_song_title_and_lyrics(song_page)
    /\ UNCHANGED <<credentials, reqVars, fetchVars, links_page, links_result,
                   song_page, lyrics_page, lyrics_result, saveVars>>

NextSong == GetSongTitleAndLyrics

SpecSong == InitSong /\ [][NextSong]_vars

(***************************************************************************)
(* C8, C9                                                                  *)
(***************************************************************************)
SongCalled == song_result.state # "pending"

\* the position of the anchor marker (div.ringtone), 0 when the page has none
AnchorMarker == FirstOf(song_page.els, "ringtone")

\* a lyrics container: a div without a class after the anchor marker and
\* before a noprint marker
HasLyricsContainer ==
    \E i \in DOMAIN song_page.els :
        /\ i > AnchorMarker
        /\ song_page.els[i].kind = "div"
        /\ \E n \in DOMAIN song_page.els : n > i /\ song_page.els[n].kind = "noprint"

\* the text of the first bold element after the anchor marker, or ""
TitleAfterAnchor ==
    LET S == {i \in DOMAIN song_page.els : i > AnchorMarker /\ song_page.els[i].kind = "b"}
    IN  IF S = {} THEN ""
        ELSE song_page.els[CHOOSE i \in S : \A j \in S : i <= j].text

\* C8 as stated: on a fetched page nothing is raised; without the main
\* content container or the anchor marker the result is ("", null); without
\* a lyrics container (no div without a class between the anchor marker and
\* a noprint marker) it is (title, null), title the first bold sibling after
\* the anchor marker or "".
C8_AsStated ==
    SongCalled /\ song_page.fetch = "ok"
        => /\ song_result.state = "returned"
           /\ ~song_page.main_content \/ AnchorMarker = 0
                => song_result.title = "" /\ song_result.lyrics = None
           /\ song_page.main_content /\ AnchorMarker # 0 /\ ~HasLyricsContainer
                => song_result.title = TitleAfterAnchor /\ song_result.lyrics = None

\* the first noprint marker of the page comes after the anchor marker
NoprintFollowsAnchor == FirstOf(song_page.els, "noprint") > AnchorMarker

\* C8 holds of the pages whose first noprint marker follows the anchor marker
C8_NoprintFollows == NoprintFollowsAnchor \/ FirstOf(song_page.els, "noprint") = 0 => C8_AsStated

\* C9 as stated: a failed fetch of the song page is raised to the caller,
\* not returned as a (title, lyrics) result.
C9_AsStated == SongCalled /\ song_page.fetch # "ok" => song_result.state = "raised"

\* C9 amended: a failed fetch of the song page (transport failure or HTTP
\* error status) is caught inside get_song_title_and_lyrics and returned as
\* (None, None); nothing is raised to the caller.  No fetched page gives that
\* result: there the title is a string.
C9_Degraded ==
    /\ SongCalled /\ song_page.fetch # "ok"
         => /\ song_result.state = "returned"
            /\ song_result.title = None /\ song_result.lyrics = None
    /\ SongCalled /\ song_page.fetch = "ok"
         => song_result.state = "returned" /\ song_result.title # None

\* the connection failed and the call returned (None, None)
C9_Witness ==
    /\ song_page.fetch = "ConnectionError"
    /\ song_result = SongResult("returned", None, None)

(***************************************************************************)
(* LyricsScraper.scrape_lyrics (lyrics_scraper.py)                         *)
(***************************************************************************)
\* a div of the page: container says whether it carries the attribute
\* data-lyrics-container, text is its get_text(separator='\n', strip=True)
Div(container, text) == [container |-> container, text |-> text]

RECURSIVE join(_, _)
\* sep.join(list)
join(sep, list) ==
    IF list = <<>> THEN ""
    ELSE IF Len(list) = 1 THEN list[1]
    ELSE list[1] \o sep \o join(sep, Tail(list))

LyricsResult(state, lyrics) == [state |-> state, lyrics |-> lyrics]

IsContainer(div) == div.container
HasText(div) == div.text # ""

\* scrape_lyrics without the test of line 79
scrape_lyrics_keep_empty(pg) ==
    IF pg.fetch # "ok" THEN LyricsResult("raised", None)
    ELSE LET lyrics_divs == SelectSeq(pg.divs, IsContainer)
         IN  IF lyrics_divs = <<>> THEN LyricsResult("returned", None)
             ELSE LET lyrics_lines == [i \in DOMAIN lyrics_divs |-> lyrics_divs[i].text]
                      lyrics == join("\n\n", lyrics_lines)
                  IN  IF lyrics = "" THEN LyricsResult("returned", None)
                      ELSE LyricsResult("returned", lyrics)

\* scrape_lyrics, after the delay: raise_for_status is not caught; the
\* containers with text are joined with a blank line
scrape_lyrics(pg) ==
    IF pg.fetch # "ok" THEN LyricsResult("raised", None)
    ELSE LET lyrics_divs == SelectSeq(pg.divs, IsContainer)
         IN  IF lyrics_divs = <<>> THEN LyricsResult("returned", None)
             ELSE LET with_text == SelectSeq(lyrics_divs, HasText)
                      lyrics_lines == [i \in DOMAIN with_text |-> with_text[i].text]
                      lyrics == join("\n\n", lyrics_lines)
                  IN  IF lyrics = "" THEN LyricsResult("returned", None)
                      ELSE LyricsResult("returned", lyrics)

(***************************************************************************)
(* SpecLyrics: one call of scrape_lyrics                                   *)
(***************************************************************************)
MaxDivs == 3

Divs ==
    {Div(FALSE, "menu")}
    \cup {Div(TRUE, t) : t \in {"", "[Strofa 1]\nuno", "due", "tre\nquattro"}}

LyricsPages ==
    {[fetch |-> f, divs |-> <<>>] : f \in {"ConnectionError", "HTTPError"}}
    \cup {[fetch |-> "ok", divs |-> ds] :
            ds \in UNION {[1..n -> Divs] : n \in 0..MaxDivs}}

InitLyrics ==
    /\ credentials = EmptyDict
    /\ ReqIdle
    /\ FetchIdle
    /\ links_page = NoPage /\ links_result = NoResult
    /\ song_page = NoPage /\ song_result = NoResult
    /\ lyrics_page \in LyricsPages
    /\ lyrics_result = LyricsResult("pending", None)
    /\ SaveIdle

ScrapeLyrics ==
    /\ lyrics_result.state = "pending"
    /\ lyrics_result' = scrape_lyrics(lyrics_page)
    /\ UNCHANGED <<credentials, reqVars, fetchVars, links_page, links_result,
                   song_page, song_result, lyrics_page, saveVars>>

NextLyrics == ScrapeLyrics

SpecLyrics == InitLyrics /\ [][NextLyrics]_vars

(***************************************************************************)
(* C10                                                                     *)
(***************************************************************************)
LyricsCalled == lyrics_result.state # "pending"

\* the positions of the divs that carry the attribute, in document order
ContainerPositions ==
    Ascending({i \in DOMAIN lyrics_page.divs : lyrics_page.divs[i].container})

\* the same, of those with text
TextPositions ==
    Ascending({i \in DOMAIN lyrics_page.divs :
                  lyrics_page.divs[i].container /\ lyrics_page.divs[i].text # ""})

RECURSIVE BlankLineJoined(_)
\* the texts at the positions ps, a blank line between consecutive ones
BlankLineJoined(ps) ==
    IF ps = <<>> THEN ""
    ELSE IF Len(ps) = 1 THEN lyrics_page.divs[ps[1]].text
    ELSE lyrics_page.divs[ps[1]].text \o "\n" \o "\n" \o BlankLineJoined(Tail(ps))

\* C10 as stated: on a fetched page scrape_lyrics raises nothing; it returns
\* null when no element carries the attribute, and otherwise the containers'
\* texts in document order with a blank line between consecutive containers.
C10_AsStated ==
    LyricsCalled /\ lyrics_page.fetch = "ok"
        => /\ lyrics_result.state = "returned"
           /\ IF ContainerPositions = <<>>
              THEN lyrics_result.lyrics = None
              ELSE lyrics_result.lyrics = BlankLineJoined(ContainerPositions)

\* C10 amended: on a fetched page scrape_lyrics raises nothing; it returns
\* null when no element carrying the attribute has text (in particular when
\* none carries it), and otherwise the texts of the containers that have
\* text, in document order, with a blank line between consecutive ones;
\* containers without text are skipped.
C10_NonEmptyContainers ==
    LyricsCalled /\ lyrics_page.fetch = "ok"
        => /\ lyrics_result.state = "returned"
           /\ IF TextPositions = <<>>
              THEN lyrics_result.lyrics = None
              ELSE lyrics_result.lyrics = BlankLineJoined(TextPositions)

\* two containers with text around one without: the empty one left no trace
C10_Witness ==
    /\ lyrics_page.fetch = "ok"
    /\ lyrics_page.divs = <<Div(TRUE, "due"), Div(TRUE, ""), Div(TRUE, "tre\nquattro")>>
    /\ lyrics_result = LyricsResult("returned", "due\n\ntre\nquattro")

(***************************************************************************)
(* File names, the disk and the trace of a batch loop                      *)
(***************************************************************************)
PlainTitle == "Va bene"
UnsafeTitle == "a /\\:*?\"<>|"

\* the characters of a string, one by one
chars(s) ==
    CASE s = PlainTitle -> <<"V", "a", " ", "b", "e", "n", "e">>
      [] s = UnsafeTitle -> <<"a", " ", "/", "\\", ":", "*", "?", "\"", "<", ">", "|">>
      [] OTHER -> <<s>>

\* str.replace(old, new), old one character long
replace(cs, old, new) == [i \in DOMAIN cs |-> IF cs[i] = old THEN new ELSE cs[i]]

\* scrape_direct.py line 200
InvalidChars == <<"/", "\\", ":", "*", "?", "\"", "<", ">", "|">>

RECURSIVE replace_each(_, _)
\* lines 200-201: for char in [...]: filename = filename.replace(char, "_")
replace_each(filename, invalid) ==
    IF invalid = <<>> THEN filename
    ELSE replace_each(replace(filename, Head(invalid), "_"), Tail(invalid))

\* lines 198-201: f"{song_title}.txt" with the invalid characters replaced
direct_filename(song_title) ==
    replace_each(chars(song_title) \o <<".", "t", "x", "t">>, InvalidChars)

\* main_scrape_lyrics.py line 18: the part of the file name after data/lyrics/
main_filename(title) == replace(chars(title), " ", "_") \o <<".", "t", "x", "t">>

\* a path: the directory and the characters of the name given for the file in it
Path(dir, name) == [dir |-> dir, name |-> name]
NoPath == Path("", <<>>)

\* os.path.join(output_dir, album_name), output_dir = "data/lyrics"
album_folder(album_name) == "data/lyrics" \o "/" \o album_name

\* with open(path, "w") as f: f.write(text).  The open can fail (the disk is
\* left as it was) and so can the write (the file is left truncated).
SaveFaults == {"none", "open", "write"}

write_file(d, path, text, fault) ==
    IF fault = "open" THEN d
    ELSE IF fault = "write" THEN DictSet(d, path, "")
    ELSE DictSet(d, path, text)

\* LyricsScraper.save_lyrics(lyrics, filename)
save_lyrics(d, lyrics, filename, fault) == write_file(d, filename, lyrics, fault)

\* what a loop did, in order
Event(ev, url, secs, path, body) ==
    [ev |-> ev, url |-> url, secs |-> secs, path |-> path, body |-> body]

\* requests.get of a song page
Get(url) == Event("get", url, 0, NoPath, None)
\* time.sleep(secs)
Sleep(secs) == Event("sleep", <<>>, secs, NoPath, None)
\* a file written and closed
Saved(path, body) == Event("saved", <<>>, 0, path, body)
\* an exception, caught (Caught) or leaving the loop (Raised)
Caught(exc, path) == Event("caught", <<>>, 0, path, exc)
Raised(exc, path) == Event("raised", <<>>, 0, path, exc)

(***************************************************************************)
(* scrape_and_save_all_lyrics (scrape_direct.py)                           *)
(***************************************************************************)
\* the (album_name, song_urls) the album loop is at
album_name == links_result.grouped_links[album_i].album
song_urls == links_result.grouped_links[album_i].links

\* lines 213-215: the delay after a song that is not the last of its album
delay_between_songs(i, urls) == IF i < Len(urls) THEN <<Sleep(10)>> ELSE <<>>

\* the discography pages of the runs
BatchListings ==
    LET one == SongItem(<<"", "lyrics", "one.html">>)
        two == SongItem(<<"https:", "", "www.azlyrics.com", "lyrics", "two.html">>)
        X == AlbumHeader("album: X")
        Y == AlbumHeader("album: Y")
    IN  {[fetch |-> "HTTPError", list_album |-> FALSE, children |-> <<>>],
         [fetch |-> "ok", list_album |-> FALSE, children |-> <<>>],
         [fetch |-> "ok", list_album |-> TRUE, children |-> <<TextNode>>]}
        \cup {[fetch |-> "ok", list_album |-> TRUE, children |-> cs] :
                cs \in {<<X, one, two>>,
                        <<X, one, Y, two>>,
                        <<X, Y, one, one>>,
                        <<X, one, two, Y, two, one>>}}

SongUrls == {absolute(PageUrl, h) : h \in Hrefs}

\* the song pages of the runs
BatchSongPages ==
    {[fetch |-> "ConnectionError", main_content |-> FALSE, els |-> <<>>],
     [fetch |-> "ok", main_content |-> FALSE, els |-> <<>>]}
    \cup {[fetch |-> "ok", main_content |-> TRUE, els |-> es] :
            es \in {<<Ringtone, Bold(PlainTitle), PlainDiv("la la"), Noprint("share")>>,
                    <<Ringtone, Bold(UnsafeTitle), PlainDiv("tra la"), Noprint("share")>>,
                    <<Ringtone, PlainDiv("la la"), Noprint("share")>>,
                    <<Ringtone, Bold(PlainTitle), Noprint("share")>>}}

\* the disk before the run: empty, or with a file of an earlier run
OldFile == Path(album_folder("album: X"), direct_filename(PlainTitle))
BatchDisks == {EmptyDict, [p \in {OldFile} |-> "old"]}

InitScrapeAndSave ==
    /\ credentials = EmptyDict
    /\ ReqIdle
    /\ FetchIdle
    /\ links_page \in BatchListings
    /\ links_result = [state |-> "pending", grouped_links |-> <<>>]
    /\ song_page = NoPage /\ song_result = NoResult
    /\ lyrics_page = NoPage /\ lyrics_result = NoResult
    /\ web \in [SongUrls -> BatchSongPages]
    /\ disk \in BatchDisks
    /\ trace = <<>>
    /\ album_i = 0 /\ song_i = 0
    /\ batch_pc = "start"
    /\ MainIdle

\* lines 172-179: the album links; an error of the listing leaves the function
ListAlbums ==
    /\ batch_pc = "start"
    /\ LET r == get_links_from_page(PageUrl, links_page)
       IN  /\ links_result' = r
           /\ IF r.state = "raised"
              THEN /\ batch_pc' = "raised"
                   /\ trace' = Append(trace, Raised("HTTPError", NoPath))
                   /\ UNCHANGED album_i
              ELSE IF r.grouped_links = <<>>
              THEN batch_pc' = "done" /\ UNCHANGED <<trace, album_i>>
              ELSE batch_pc' = "album" /\ album_i' = 1 /\ UNCHANGED trace
    /\ UNCHANGED <<credentials, reqVars, fetchVars, links_page, song_page, song_result,
                   lyrics_page, lyrics_result, web, disk, song_i,
                   song_rows, site, options, results, main_i, main_pc>>

\* lines 182-188: os.makedirs(album_folder, exist_ok=True), outside the try
EnterAlbum ==
    /\ batch_pc = "album"
    /\ \E makedirs_fails \in BOOLEAN :
          IF makedirs_fails
          THEN /\ batch_pc' = "raised"
               /\ trace' = Append(trace, Raised("OSError", Path(album_folder(album_name), <<>>)))
               /\ UNCHANGED song_i
          ELSE batch_pc' = "songs" /\ song_i' = 1 /\ UNCHANGED trace
    /\ UNCHANGED <<credentials, reqVars, fetchVars, scrapeVars, web, disk, album_i,
                   song_rows, site, options, results, main_i, main_pc>>

\* line 196 without the test of lyrics
should_save_any_body(song_title, lyrics) == Truthy(song_title)

\* line 196: if song_title and lyrics
should_save(song_title, lyrics) == Truthy(song_title) /\ Truthy(lyrics)

\* line 217 without OSError
caught_requests_only(exc) == exc = "RequestException"

\* line 217: except (requests.RequestException, OSError)
caught(exc) == exc \in {"RequestException", "OSError"}

\* what the except clause does to the trace and to the position of the run
after_exception(exc, path) ==
    IF caught(exc) THEN [events |-> <<Caught(exc, path)>>, pc |-> "songs"]
    ELSE [events |-> <<Raised(exc, path)>>, pc |-> "raised"]

\* lines 191-218: one pass of the song loop
ScrapeSong ==
    /\ batch_pc = "songs"
    /\ song_i <= Len(song_urls)
    /\ LET song_url == song_urls[song_i]
           r == get_song_title_and_lyrics(web[song_url])
           filepath == Path(album_folder(album_name), direct_filename(r.title))
           request_failed == after_exception("RequestException", NoPath)
           save_failed == after_exception("OSError", filepath)
       IN  /\ song_page' = web[song_url]
           /\ song_result' = r
           /\ IF r.state = "raised"
              THEN /\ trace' = trace \o <<Get(song_url)>> \o request_failed.events
                   /\ batch_pc' = request_failed.pc
                   /\ UNCHANGED disk
              ELSE IF should_save(r.title, r.lyrics)
              THEN \E fault \in SaveFaults :
                     /\ disk' = write_file(disk, filepath, r.lyrics, fault)
                     /\ IF fault = "none"
                        THEN /\ trace' = trace \o <<Get(song_url), Saved(filepath, r.lyrics)>>
                                           \o delay_between_songs(song_i, song_urls)
                             /\ UNCHANGED batch_pc
                        ELSE /\ trace' = trace \o <<Get(song_url)>> \o save_failed.events
                             /\ batch_pc' = save_failed.pc
              ELSE /\ trace' = trace \o <<Get(song_url)>>
                                 \o delay_between_songs(song_i, song_urls)
                   /\ UNCHANGED <<disk, batch_pc>>
    /\ song_i' = song_i + 1
    /\ UNCHANGED <<credentials, reqVars, fetchVars, links_page, links_result,
                   lyrics_page, lyrics_result, web, album_i,
                   song_rows, site, options, results, main_i, main_pc>>

\* lines 220-224: the delay between albums, then the next album or the end
LeaveAlbum ==
    /\ batch_pc = "songs"
    /\ song_i > Len(song_urls)
    /\ trace' = Append(trace, Sleep(10))
    /\ IF album_i < Len(links_result.grouped_links)
       THEN album_i' = album_i + 1 /\ batch_pc' = "album"
       ELSE batch_pc' = "done" /\ UNCHANGED album_i
    /\ UNCHANGED <<credentials, reqVars, fetchVars, scrapeVars, web, disk, song_i,
                   song_rows, site, options, results, main_i, main_pc>>

NextScrapeAndSave == ListAlbums \/ EnterAlbum \/ ScrapeSong \/ LeaveAlbum

(***************************************************************************)
(* LyricsScraper.scrape_multiple_urls (lyrics_scraper.py) and main          *)
(* (main_scrape_lyrics.py)                                                 *)
(***************************************************************************)
\* results, a dict that keeps insertion order: results[url] = lyrics
\* replaces the value of the url's entry in place, or appends a new entry
HasUrl(d, url) == \E i \in DOMAIN d : d[i].url = url

results_set(d, url, lyrics) ==
    IF HasUrl(d, url)
    THEN [i \in DOMAIN d |-> IF d[i].url = url THEN [url |-> url, lyrics |-> lyrics] ELSE d[i]]
    ELSE Append(d, [url |-> url, lyrics |-> lyrics])

\* results[url]
results_get(d, url) == d[CHOOSE i \in DOMAIN d : d[i].url = url].lyrics

\* list(results.keys())
keys(d) == [i \in DOMAIN d |-> d[i].url]

\* [song["url"] for song in songs]
urls == [i \in DOMAIN song_rows |-> song_rows[i].url]

\* zip(songs, results.keys())
zip(xs, ys) ==
    [i \in 1..(IF Len(xs) < Len(ys) THEN Len(xs) ELSE Len(ys)) |-> <<xs[i], ys[i]>>]

\* lines 109, 52-54: no delay before the first request
request_delay(i, delay) == IF i > 1 THEN delay ELSE 0
delay_before(secs) == IF secs > 0 THEN <<Sleep(secs)>> ELSE <<>>

MaxSongs == 3

\* the titles of the CSV, row by row
Titles == <<PlainTitle, UnsafeTitle, "Tre", "Quattro">>

LyricsUrls == {<<"https:", "", "genius.com", "uno-lyrics">>,
               <<"https:", "", "genius.com", "due-lyrics">>}

SongRows ==
    UNION {{[i \in 1..n |-> [title |-> Titles[i], url |-> us[i]]] : us \in [1..n -> LyricsUrls]} :
             n \in 0..MaxSongs}

\* the lyrics pages of the runs
BatchLyricsPages ==
    {[fetch |-> "ConnectionError", divs |-> <<>>],
     [fetch |-> "ok", divs |-> <<Div(FALSE, "menu")>>],
     [fetch |-> "ok", divs |-> <<Div(TRUE, "due")>>],
     [fetch |-> "ok", divs |-> <<Div(TRUE, "[Strofa 1]\nuno"), Div(TRUE, "tre\nquattro")>>]}

\* main calls scrape_multiple_urls(urls, delay=1.0); another caller picks
\* stop_on_error and does not save
Options ==
    {[caller |-> "main", delay |-> 1, stop_on_error |-> FALSE]}
    \cup {[caller |-> "other", delay |-> 1, stop_on_error |-> b] : b \in BOOLEAN}

MainDisks == {EmptyDict, [p \in {Path("data/lyrics", main_filename(PlainTitle))} |-> "old"]}

InitMain ==
    /\ credentials = EmptyDict
    /\ ReqIdle
    /\ FetchIdle
    /\ links_page = NoPage /\ links_result = NoResult
    /\ song_page = NoPage /\ song_result = NoResult
    /\ lyrics_page = NoPage /\ lyrics_result = NoResult
    /\ BatchIdle
    /\ song_rows \in SongRows
    /\ site \in [LyricsUrls -> BatchLyricsPages]
    /\ options \in Options
    /\ results = <<>>
    /\ main_i = 0
    /\ main_pc = "start"
    /\ disk \in MainDisks
    /\ trace = <<>>

\* where the run is once scrape_multiple_urls has returned d
returned_to_caller(d) ==
    IF options.caller = "main" /\ zip(song_rows, keys(d)) # <<>> THEN "saving" ELSE "done"

\* lines 104-106: results = {}, the loop over the urls starts
ScrapeMultipleUrls ==
    /\ main_pc = "start"
    /\ results' = <<>>
    /\ main_i' = 1
    /\ main_pc' = IF urls = <<>> THEN returned_to_caller(<<>>) ELSE "scraping"
    /\ UNCHANGED <<credentials, reqVars, fetchVars, scrapeVars, web, disk, trace,
                   album_i, song_i, batch_pc, song_rows, site, options>>

\* lines 106-118: one pass of the loop of scrape_multiple_urls; after the
\* last pass, or on the break, results is returned
ScrapeUrl ==
    /\ main_pc = "scraping"
    /\ LET url == urls[main_i]
           r == scrape_lyrics(site[url])
           wait == delay_before(request_delay(main_i, options.delay))
           stop == r.state = "raised" /\ options.stop_on_error
           d == IF r.state = "raised"
                THEN IF options.stop_on_error THEN results
                     ELSE results_set(results, url, None)
                ELSE results_set(results, url, r.lyrics)
       IN  /\ lyrics_page' = site[url]
           /\ lyrics_result' = r
           /\ trace' = trace \o wait \o <<Get(url)>>
                         \o IF r.state = "raised"
                            THEN <<Caught("RequestException", NoPath)>> ELSE <<>>
           /\ results' = d
           /\ IF stop \/ main_i = Len(urls)
              THEN main_pc' = returned_to_caller(d) /\ main_i' = 1
              ELSE main_pc' = "scraping" /\ main_i' = main_i + 1
    /\ UNCHANGED <<credentials, reqVars, fetchVars, links_page, links_result,
                   song_page, song_result, web, disk, album_i, song_i, batch_pc,
                   song_rows, site, options>>

\* main, lines 15-22: one pass of the loop over zip(songs, results.keys())
SaveSong ==
    /\ main_pc = "saving"
    /\ LET pairs == zip(song_rows, keys(results))
           song == pairs[main_i][1]
           url == pairs[main_i][2]
           lyrics == results_get(results, url)
           filename == Path("data/lyrics", main_filename(song.title))
           next_pc == IF main_i = Len(pairs) THEN "done" ELSE "saving"
       IN  IF Truthy(lyrics)
           THEN \E fault \in SaveFaults :
                  /\ disk' = save_lyrics(disk, lyrics, filename, fault)
                  /\ IF fault = "none"
                     THEN /\ trace' = Append(trace, Saved(filename, lyrics))
                          /\ main_pc' = next_pc
                     ELSE /\ trace' = Append(trace, Raised("OSError", filename))
                          /\ main_pc' = "raised"
           ELSE main_pc' = next_pc /\ UNCHANGED <<disk, trace>>
    /\ main_i' = main_i + 1
    /\ UNCHANGED <<credentials, reqVars, fetchVars, scrapeVars, web,
                   album_i, song_i, batch_pc, song_rows, site, options, results>>

NextMain == ScrapeMultipleUrls \/ ScrapeUrl \/ SaveSong

(***************************************************************************)
(* SpecBatch: one run of a batch loop, scrape_and_save_all_lyrics or       *)
(* scrape_multiple_urls (called by main, which then saves, or by another   *)
(* caller)                                                                 *)
(***************************************************************************)
InitBatch == InitScrapeAndSave \/ InitMain

NextBatch == NextScrapeAndSave \/ NextMain

SpecBatch == InitBatch /\ [][NextBatch]_vars

(***************************************************************************)
(* C11                                                                     *)
(***************************************************************************)
DirectRuns == batch_pc # "idle"
MainRuns == main_pc # "idle" /\ options.caller = "main"

\* the events of a kind, in order
EventsOf(kind) == SelectSeq(trace, LAMBDA e : e.ev = kind)

\* C11: in both batch loops, a step that changes the disk handles a song
\* whose extracted body is non-null and non-empty and touches one file only,
\* which then holds that body (or nothing, when the write failed after the
\* open); a pass whose extraction gave null or "" leaves every file as it was.
C11_OnlyExtractedBodies ==
    [][disk' # disk =>
         LET body == IF DirectRuns THEN song_result'.lyrics
                     ELSE results_get(results, keys(results)[main_i])
         IN  /\ body # None /\ body # ""
             /\ \E p \in DOMAIN disk' :
                   /\ disk'[p] \in {body, ""}
                   /\ \A q \in DOMAIN disk' \ {p} : q \in DOMAIN disk /\ disk'[q] = disk[q]
                   /\ DOMAIN disk \subseteq DOMAIN disk']_vars

\* an album of two songs, done: the first was saved, the extraction of the
\* second gave no lyrics and the file of an earlier run is as it was
C11_Witness ==
    /\ batch_pc = "done"
    /\ Len(EventsOf("get")) = 2
    /\ Len(EventsOf("saved")) = 1
    /\ song_result = SongResult("returned", PlainTitle, None)
    /\ OldFile \in DOMAIN disk /\ disk[OldFile] = "old"

(***************************************************************************)
(* C12                                                                     *)
(***************************************************************************)
UnsafeCharacters == {"/", "\\", ":", "*", "?", "\"", "<", ">", "|"}

\* the file names the run has opened, or tried to open, so far
OpenedNames ==
    {trace[i].path.name : i \in {j \in DOMAIN trace : trace[j].path.name # <<>>}}

NoUnsafeCharacter(name) == \A i \in DOMAIN name : name[i] \notin UnsafeCharacters

\* C12 as stated: in both batch loops, no file name derived from a song
\* title and opened contains any of / \ : * ? " < > |.
C12_AsStated == \A name \in OpenedNames : NoUnsafeCharacter(name)

\* the file names of scrape_and_save_all_lyrics are the title and ".txt",
\* each unsafe character replaced with an underscore
C12_Direct ==
    DirectRuns =>
        \A i \in DOMAIN trace :
            trace[i].path.name # <<>> =>
                /\ NoUnsafeCharacter(trace[i].path.name)
                /\ \E t \in {PlainTitle, UnsafeTitle} :
                      LET cs == chars(t) \o <<".", "t", "x", "t">>
                      IN  /\ Len(trace[i].path.name) = Len(cs)
                          /\ \A k \in DOMAIN cs :
                                trace[i].path.name[k]
                                    = IF cs[k] \in UnsafeCharacters THEN "_" ELSE cs[k]

\* a title with unsafe characters was saved by scrape_and_save_all_lyrics
C12_DirectReached ==
    DirectRuns /\ \E i \in DOMAIN trace :
        /\ trace[i].ev = "saved"
        /\ trace[i].path.name = <<"a", " ", "_", "_", "_", "_", "_", "_", "_", "_", "_",
                                  ".", "t", "x", "t">>

(***************************************************************************)
(* C13                                                                     *)
(***************************************************************************)
RECURSIVE AllLinks(_)
\* the song urls of all the albums of the grouping, album by album
AllLinks(d) == IF d = <<>> THEN <<>> ELSE Head(d).links \o AllLinks(Tail(d))

\* the song urls requested so far, in order
Requested == [i \in DOMAIN EventsOf("get") |-> EventsOf("get")[i].url]

IsPrefix(xs, ys) == Len(xs) <= Len(ys) /\ \A i \in DOMAIN xs : xs[i] = ys[i]

\* the error of saving a song: an OSError with the song's file path
SaveError(e) == e.body = "OSError" /\ e.path.name # <<>>

\* C13: in scrape_and_save_all_lyrics an OSError raised while saving a song
\* is caught in that song's pass and never leaves the function; the run
\* stays in the song loop and requests the song urls in the order of the
\* albums, and a run that ends has requested every song url of every album,
\* whether or not saves failed.
C13_SaveErrorsCaught ==
    DirectRuns =>
        /\ \A i \in DOMAIN trace : SaveError(trace[i]) => trace[i].ev = "caught"
        /\ batch_pc = "raised" => ~SaveError(trace[Len(trace)])
        /\ batch_pc = "songs" => album_i \in DOMAIN links_result.grouped_links
        /\ IsPrefix(Requested, AllLinks(links_result.grouped_links))
        /\ batch_pc = "done" => Requested = AllLinks(links_result.grouped_links)

\* two albums, done: the save of the first album's song failed, and the
\* song of the second album was requested after it
C13_Witness ==
    /\ batch_pc = "done"
    /\ Len(links_result.grouped_links) = 2
    /\ Len(Requested) = 2
    /\ \E i, j \in DOMAIN trace :
          /\ i < j
          /\ trace[i].ev = "caught" /\ SaveError(trace[i])
          /\ trace[j].ev = "get"

(***************************************************************************)
(* C14                                                                     *)
(***************************************************************************)
\* positions i < j of two consecutive requests of song pages
ConsecutiveGets(i, j) ==
    /\ i < j
    /\ trace[i].ev = "get" /\ trace[j].ev = "get"
    /\ \A k \in (i + 1)..(j - 1) : trace[k].ev # "get"

DelayBetween(i, j) == \E k \in (i + 1)..(j - 1) : trace[k].ev = "sleep" /\ trace[k].secs > 0

\* C14 as stated: in scrape_and_save_all_lyrics and scrape_multiple_urls, on
\* every path, a delay elapses between any two consecutive requests of song
\* pages, those of two albums included.
C14_AsStated ==
    \A i, j \in DOMAIN trace : ConsecutiveGets(i, j) => DelayBetween(i, j)

\* the delay is there between two requests unless the save of the first
\* song failed
C14_UnlessSaveFailed ==
    \A i, j \in DOMAIN trace :
        ConsecutiveGets(i, j)
            => \/ DelayBetween(i, j)
               \/ DirectRuns /\ trace[i + 1].ev = "caught" /\ SaveError(trace[i + 1])

\* scrape_multiple_urls made two requests, the first of them failed
C14_MultipleUrlsReached ==
    /\ main_pc # "idle"
    /\ \E i, j \in DOMAIN trace : ConsecutiveGets(i, j) /\ trace[i + 1].ev = "caught"

(***************************************************************************)
(* C15                                                                     *)
(***************************************************************************)
\* the lyrics scraped from a url: null when the request or the extraction fails
ScrapedFrom(url) == scrape_lyrics(site[url]).lyrics

\* the bodies saved under a title so far
SavedUnder(title) ==
    {trace[i].body : i \in {j \in DOMAIN trace :
                              /\ trace[j].ev = "saved"
                              /\ trace[j].path = Path("data/lyrics", main_filename(title))}}

\* C15 as stated: in main, every file written under a song's title holds the
\* lyrics scraped from that song's url, and when main is done every song
\* whose scrape succeeded has its file.
C15_AsStated ==
    MainRuns =>
        \A k \in DOMAIN song_rows :
            /\ \A body \in SavedUnder(song_rows[k].title) : body = ScrapedFrom(song_rows[k].url)
            /\ main_pc = "done" /\ Truthy(ScrapedFrom(song_rows[k].url))
                 => SavedUnder(song_rows[k].title) # {}

\* no two rows of the CSV have the same url
DistinctUrls == \A i, j \in DOMAIN song_rows : song_rows[i].url = song_rows[j].url => i = j

\* the pairing is right when the urls of the CSV are pairwise different,
\* failed scrapes or not
C15_DistinctUrls == DistinctUrls => C15_AsStated

\* two songs of different urls, the scrape of the first failed, the second
\* was saved, main is done
C15_DistinctReached ==
    /\ MainRuns /\ main_pc = "done" /\ DistinctUrls
    /\ Len(song_rows) = 2
    /\ ScrapedFrom(song_rows[1].url) = None
    /\ SavedUnder(song_rows[2].title) # {}

=============================================================================
